---- MODULE Spec2Model ----
(***************************************************************************)
(* Model of the resume section segmentation of MLPulse/resume-search       *)
(* (src/data_processing/resume_parser.py).                                 *)
(*                                                                         *)
(* A text is a sequence of one-character strings.  Similarity scores are   *)
(* integers in hundredths (0.65 is 65, 0.75 is 75).                        *)
(***************************************************************************)
EXTENDS Integers, Sequences, FiniteSets, TLC

VARIABLES
    text,                \* argument of extract_sections_spacy
    lines,               \* text.split('\n')
    idx,                 \* position of the for loop: lines[idx] is the next line
    current_section,     \* local current_section
    previous_section,    \* history: current_section before the last processed line
    sections_dict,       \* category -> list of appended lines
    predicted_category,  \* local predicted_category ("unset" before the first scoring)
    best_score,          \* local best_score (-1 before the first scoring)
    consumed,            \* indexes of the lines skipped by `continue` without an append
    placed,              \* category -> indexes of the lines appended to it, in append order
    result,              \* returned dict: category -> string ("none" before the return)
    pc,                  \* "loop" while lines are processed, "done" after the return
    scorer_sim,          \* argument of a call of the scorer: the provider's answers
    scorer_out,          \* what that call returned
    heading_in,          \* arguments of a call of is_potential_heading
    heading_out,         \* what that call returned
    provider_fault,      \* history: "none", the exception the provider raised, or
                         \* "out_of_range" once it returned a value outside [0,1]
    raised,              \* the exception that left extract_sections_spacy, or "none"
    files,               \* the files of a run, in the order of the parse_resume calls
    file_pos,            \* position in files of the call under way or next
    reports,             \* what the parse_resume calls of the run returned, in order
    workers,             \* concurrent calls of extract_sections_spacy: the locals of each
    storage_dict,        \* match_resume_to_jobs: the caller's dict, resume_id -> scores
    match_call,          \* the last call of match_resume_to_jobs: arguments and return
    filter_call,         \* the last call of filter_by_salary_range: arguments and return
    fetcher,             \* fetch_jobs: "adzuna" or "jooble" ("none" outside a call)
    pages,               \* argument pages
    results_per_page,    \* argument results_per_page
    page_num,            \* position of the for loop, from 1
    retries,             \* local retries
    backoff,             \* local backoff, in seconds
    offset,              \* local offset (Jooble); stays 0 for Adzuna
    all_jobs,            \* local all_jobs, the returned list
    attempts,            \* history: the HTTP requests issued for the page under way
    sleeps,              \* history: the time.sleep durations of the page under way
    page_log,            \* history: one record per finished page
    fetch_pc             \* "idle", "for" (between pages), "while" (in a page), "done"

\* the variables of one pass of extract_sections_spacy
pass_vars == <<text, lines, idx, current_section, previous_section, sections_dict,
               predicted_category, best_score, consumed, placed, result, pc>>

\* the variables of the calls of the two pure functions
function_vars == <<scorer_sim, scorer_out, heading_in, heading_out>>

\* the variables of a run of parse_resume calls
batch_vars == <<files, file_pos, reports>>

\* the variables a loop iteration of the pass never touches
\* the variables of the calls of match_resume_to_jobs and filter_by_salary_range
match_vars == <<storage_dict, match_call, filter_call>>

\* the variables of a call of fetch_jobs
fetch_vars == <<fetcher, pages, results_per_page, page_num, retries, backoff, offset,
                all_jobs, attempts, sleeps, page_log, fetch_pc>>

service_vars == <<match_vars, fetch_vars>>

frame == <<function_vars, batch_vars, workers, service_vars>>

\* the variables of the faults of the similarity provider
fault_vars == <<provider_fault, raised>>

vars == <<pass_vars, frame, fault_vars>>

-----------------------------------------------------------------------------
(* Characters and the str methods the parser uses, over ASCII letters and   *)
(* the ASCII whitespace characters.                                        *)

UpperChars == {"A","B","C","D","E","F","G","H","I","J","K","L","M",
               "N","O","P","Q","R","S","T","U","V","W","X","Y","Z"}

LowerChars == {"a","b","c","d","e","f","g","h","i","j","k","l","m",
               "n","o","p","q","r","s","t","u","v","w","x","y","z"}

Whitespace == {" ", "\t", "\n", "\r", "\f"}

isspace(ch) == ch \in Whitespace

isalpha(ch) == ch \in UpperChars \cup LowerChars

isupper(ch) == ch \in UpperChars

UpperSeq == <<"A","B","C","D","E","F","G","H","I","J","K","L","M",
              "N","O","P","Q","R","S","T","U","V","W","X","Y","Z">>

LowerSeq == <<"a","b","c","d","e","f","g","h","i","j","k","l","m",
              "n","o","p","q","r","s","t","u","v","w","x","y","z">>

\* a variant of lower: the text is left as it is
lower_unchanged(s) == s

\* s.lower()
lower(s) ==
    [k \in 1..Len(s) |->
        IF s[k] \in UpperChars
        THEN LowerSeq[CHOOSE n \in 1..26 : UpperSeq[n] = s[k]]
        ELSE s[k]]

\* s.lstrip()
RECURSIVE lstrip(_)
lstrip(s) ==
    IF s = <<>> THEN <<>>
    ELSE IF isspace(Head(s)) THEN lstrip(Tail(s)) ELSE s

\* s.rstrip()
RECURSIVE rstrip(_)
rstrip(s) ==
    IF s = <<>> THEN <<>>
    ELSE IF isspace(s[Len(s)]) THEN rstrip(SubSeq(s, 1, Len(s) - 1)) ELSE s

\* s.strip()
strip(s) == rstrip(lstrip(s))

\* s.split(sep) for a one-character sep: every separator cuts, empty pieces kept
RECURSIVE split_on(_, _, _)
split_on(s, sep, piece) ==
    IF s = <<>> THEN <<piece>>
    ELSE IF Head(s) = sep THEN <<piece>> \o split_on(Tail(s), sep, <<>>)
    ELSE split_on(Tail(s), sep, Append(piece, Head(s)))

\* s.split(): runs of whitespace cut, empty pieces dropped
RECURSIVE split_ws(_, _)
split_ws(s, piece) ==
    IF s = <<>> THEN (IF piece = <<>> THEN <<>> ELSE <<piece>>)
    ELSE IF isspace(Head(s))
         THEN (IF piece = <<>> THEN <<>> ELSE <<piece>>) \o split_ws(Tail(s), <<>>)
         ELSE split_ws(Tail(s), Append(piece, Head(s)))

\* sep.join(parts)
RECURSIVE join(_, _)
join(sep, parts) ==
    IF parts = <<>> THEN <<>>
    ELSE IF Len(parts) = 1 THEN parts[1]
    ELSE parts[1] \o <<sep>> \o join(sep, Tail(parts))

\* sum(pred(ch) for ch in s)
RECURSIVE count_chars(_, _)
count_chars(s, up) ==
    IF s = <<>> THEN 0
    ELSE (IF isalpha(Head(s)) /\ (up => isupper(Head(s))) THEN 1 ELSE 0)
         + count_chars(Tail(s), up)

-----------------------------------------------------------------------------
(* Heading heuristic.  uppercase_ratio is in hundredths.                   *)

max_words_default == 5
uppercase_ratio_default == 70

\* a variant of is_potential_heading without the test of the stripped line
is_potential_heading_unguarded(line, max_words, uppercase_ratio) ==
    LET stripped == strip(line)
        words == split_ws(stripped, <<>>)
        upper_chars == count_chars(stripped, TRUE)
        total_alpha == count_chars(stripped, FALSE)
    IN  IF Len(words) <= max_words THEN TRUE
        ELSE IF total_alpha > 0 /\ upper_chars * 100 >= uppercase_ratio * total_alpha
             THEN TRUE
        ELSE FALSE

\* a variant of is_potential_heading: `<` for `<=` at max_words
is_potential_heading_fewer(line, max_words, uppercase_ratio) ==
    LET stripped == strip(line)
        words == split_ws(stripped, <<>>)
        upper_chars == count_chars(stripped, TRUE)
        total_alpha == count_chars(stripped, FALSE)
    IN  IF stripped = <<>> THEN FALSE
        ELSE IF Len(words) < max_words THEN TRUE
        ELSE IF total_alpha > 0 /\ upper_chars * 100 >= uppercase_ratio * total_alpha
             THEN TRUE
        ELSE FALSE

is_potential_heading(line, max_words, uppercase_ratio) ==
    LET stripped == strip(line)
        words == split_ws(stripped, <<>>)
        upper_chars == count_chars(stripped, TRUE)
        total_alpha == count_chars(stripped, FALSE)
    IN  IF stripped = <<>> THEN FALSE
        ELSE IF Len(words) <= max_words THEN TRUE
        ELSE IF total_alpha > 0 /\ upper_chars * 100 >= uppercase_ratio * total_alpha
             THEN TRUE
        ELSE FALSE

-----------------------------------------------------------------------------
(* Category vocabulary and scorer.                                         *)

Categories == {"education", "experience", "skills", "other"}

synonyms_map ==
    << [category |-> "education",
        synonyms |-> << "education", "academic background", "academics", "schooling",
                        "educational background", "bachelor", "master", "university",
                        "college", "graduate studies" >>],
       [category |-> "experience",
        synonyms |-> << "experience", "work history", "employment",
                        "professional experience", "career history" >>],
       [category |-> "skills",
        synonyms |-> << "skills", "competencies", "expertise",
                        "technical skills", "areas of expertise" >>] >>

\* the (category, synonym) pairs in the iteration order of the two nested loops
RECURSIVE vocabulary_pairs(_)
vocabulary_pairs(m) ==
    IF m = <<>> THEN <<>>
    ELSE [k \in 1..Len(m[1].synonyms) |->
             [category |-> m[1].category, syn |-> m[1].synonyms[k]]]
         \o vocabulary_pairs(Tail(m))

Synonyms == {p.syn : p \in {vocabulary_pairs(synonyms_map)[k] :
                              k \in 1..Len(vocabulary_pairs(synonyms_map))}}

\* the characters of every synonym of the vocabulary
spelling ==
    ("education" :> <<"e", "d", "u", "c", "a", "t", "i", "o", "n">>
     @@ "academic background" :> <<"a", "c", "a", "d", "e", "m", "i", "c", " ", "b", "a", "c", "k", "g",
            "r", "o", "u", "n", "d">>
     @@ "academics" :> <<"a", "c", "a", "d", "e", "m", "i", "c", "s">>
     @@ "schooling" :> <<"s", "c", "h", "o", "o", "l", "i", "n", "g">>
     @@ "educational background" :> <<"e", "d", "u", "c", "a", "t", "i", "o", "n", "a", "l", " ", "b", "a",
            "c", "k", "g", "r", "o", "u", "n", "d">>
     @@ "bachelor" :> <<"b", "a", "c", "h", "e", "l", "o", "r">>
     @@ "master" :> <<"m", "a", "s", "t", "e", "r">>
     @@ "university" :> <<"u", "n", "i", "v", "e", "r", "s", "i", "t", "y">>
     @@ "college" :> <<"c", "o", "l", "l", "e", "g", "e">>
     @@ "graduate studies" :> <<"g", "r", "a", "d", "u", "a", "t", "e", " ", "s", "t", "u", "d", "i",
            "e", "s">>
     @@ "experience" :> <<"e", "x", "p", "e", "r", "i", "e", "n", "c", "e">>
     @@ "work history" :> <<"w", "o", "r", "k", " ", "h", "i", "s", "t", "o", "r", "y">>
     @@ "employment" :> <<"e", "m", "p", "l", "o", "y", "m", "e", "n", "t">>
     @@ "professional experience" :> <<"p", "r", "o", "f", "e", "s", "s", "i", "o", "n", "a", "l", " ", "e",
            "x", "p", "e", "r", "i", "e", "n", "c", "e">>
     @@ "career history" :> <<"c", "a", "r", "e", "e", "r", " ", "h", "i", "s", "t", "o", "r", "y">>
     @@ "skills" :> <<"s", "k", "i", "l", "l", "s">>
     @@ "competencies" :> <<"c", "o", "m", "p", "e", "t", "e", "n", "c", "i", "e", "s">>
     @@ "expertise" :> <<"e", "x", "p", "e", "r", "t", "i", "s", "e">>
     @@ "technical skills" :> <<"t", "e", "c", "h", "n", "i", "c", "a", "l", " ", "s", "k", "i", "l",
            "l", "s">>
     @@ "areas of expertise" :> <<"a", "r", "e", "a", "s", " ", "o", "f", " ", "e", "x", "p", "e", "r",
            "t", "i", "s", "e">>)

base_threshold_default == 65
override_threshold == 75

\* a variant of best_match: `>=` for `>`, so the last maximum seen wins
RECURSIVE best_match_last(_, _, _, _)
best_match_last(pairs, sim, best_category_, best_score_) ==
    IF pairs = <<>> THEN [category |-> best_category_, score |-> best_score_]
    ELSE LET score == sim[pairs[1].syn]
         IN  IF score >= best_score_
             THEN best_match_last(Tail(pairs), sim, pairs[1].category, score)
             ELSE best_match_last(Tail(pairs), sim, best_category_, best_score_)

\* the running maximum of the scorer loop over the remaining pairs
RECURSIVE best_match(_, _, _, _)
best_match(pairs, sim, best_category_, best_score_) ==
    IF pairs = <<>> THEN [category |-> best_category_, score |-> best_score_]
    ELSE LET score == sim[pairs[1].syn]
         IN  IF score > best_score_
             THEN best_match(Tail(pairs), sim, pairs[1].category, score)
             ELSE best_match(Tail(pairs), sim, best_category_, best_score_)

\* a variant of get_section_label_with_score without the base threshold
get_section_label_with_score_unforced(sim, vocabulary, base_threshold) ==
    best_match(vocabulary_pairs(vocabulary), sim, "other", 0)

\* sim: the similarity of the lowercased line to each synonym, as the provider gives it
get_section_label_with_score(sim, vocabulary, base_threshold) ==
    LET best == best_match(vocabulary_pairs(vocabulary), sim, "other", 0)
    IN  IF best.score >= base_threshold
        THEN best
        ELSE [category |-> "other", score |-> best.score]

-----------------------------------------------------------------------------
(* Input documents: up to MaxLines lines drawn from LinePool.              *)

MaxLines == 3

BlankLine == <<>>
SpaceLine == <<" ", "\t">>
ContentLine == <<" ", "a", " ", "b", " ", "c", " ", "d", " ", "e", " ", "f", "1", " ">>
DigitsLine == <<"1", " ", "2", " ", "3", " ", "4", " ", "5", " ", "6">>
ShortLine == <<"B", "o", "b", " ">>
CapsLine == <<"A", "B", " ", "C", " ", "D", " ", "E", " ", "F", " ", "G", " ", "h">>

LinePool == {BlankLine, SpaceLine, ContentLine, DigitsLine, ShortLine, CapsLine}

Documents == UNION {[1..n -> LinePool] : n \in 1..MaxLines}

(* Answers of the similarity provider for one line: one synonym scores     *)
(* peak, every other synonym scores rest.  The answer is chosen anew for   *)
(* every scored line, so a provider that is a function of the line text is *)
(* one of the providers covered.                                           *)

Scores == {0, 64, 65, 70, 75, 90}

SimAnswers ==
    {[syn \in Synonyms |-> IF syn = at THEN peak ELSE rest] :
        at \in Synonyms, peak \in Scores, rest \in Scores}

\* what the scorer returns over the provider's answers, at the threshold of the caller
ScorerResults ==
    {get_section_label_with_score(sim, synonyms_map, base_threshold_default) :
        sim \in SimAnswers}

-----------------------------------------------------------------------------
(* extract_sections_spacy                                                  *)

\* a variant of initial_section: the pass starts in a real category
initial_section_education == "education"

\* current_section = "other"
initial_section == "other"

\* no call of the pure functions is under way
FunctionsIdle ==
    /\ scorer_sim = [syn \in Synonyms |-> 0]
    /\ scorer_out = [category |-> "unset", score |-> -1]
    /\ heading_in = [line |-> <<>>, max_words |-> max_words_default,
                     uppercase_ratio |-> uppercase_ratio_default]
    /\ heading_out = [returned |-> FALSE, value |-> FALSE]

\* no call of match_resume_to_jobs or filter_by_salary_range has been made
MatchIdle ==
    /\ storage_dict = <<>>
    /\ match_call = [made |-> FALSE]
    /\ filter_call = [made |-> FALSE]

\* no call of fetch_jobs is under way
FetchIdle ==
    /\ fetcher = "none"
    /\ pages = 0
    /\ results_per_page = 0
    /\ page_num = 1
    /\ retries = 0
    /\ backoff = 0
    /\ offset = 0
    /\ all_jobs = <<>>
    /\ attempts = 0
    /\ sleeps = <<>>
    /\ page_log = <<>>
    /\ fetch_pc = "idle"

ServicesIdle == MatchIdle /\ FetchIdle

\* no run of parse_resume calls is under way, and no concurrent calls
BatchIdle ==
    /\ files = <<>>
    /\ file_pos = 1
    /\ reports = <<>>
    /\ workers = <<>>
    /\ ServicesIdle

\* the provider has not failed
FaultsIdle ==
    /\ provider_fault = "none"
    /\ raised = "none"

\* no pass is under way
PassIdle ==
    /\ text = <<>>
    /\ lines = <<>>
    /\ idx = 1
    /\ current_section = "other"
    /\ previous_section = "other"
    /\ sections_dict = [key \in Categories |-> <<>>]
    /\ predicted_category = "unset"
    /\ best_score = -1
    /\ consumed = {}
    /\ placed = [key \in Categories |-> <<>>]
    /\ result = "none"
    /\ pc = "idle"

\* the state at the start of the loop, for a text out of docs
InitDocument(docs) ==
    /\ \E doc \in docs : text = join("\n", doc)
    /\ lines = split_on(text, "\n", <<>>)
    /\ idx = 1
    /\ current_section = initial_section
    /\ previous_section = initial_section
    /\ sections_dict = [key \in Categories |-> <<>>]
    /\ predicted_category = "unset"
    /\ best_score = -1
    /\ consumed = {}
    /\ placed = [key \in Categories |-> <<>>]
    /\ result = "none"
    /\ pc = "loop"

Init == InitDocument(Documents) /\ FunctionsIdle /\ FaultsIdle /\ BatchIdle

\* variants of append_line: the line appended twice (a missing `continue`),
\* appended stripped, inserted at the front
append_line_twice(dict, section, line) ==
    [dict EXCEPT ![section] = Append(Append(@, line), line)]

append_line_stripped(dict, section, line) ==
    [dict EXCEPT ![section] = Append(@, strip(line))]

append_line_front(dict, section, line) ==
    [dict EXCEPT ![section] = <<line>> \o @]

\* sections_dict[current_section].append(line)
append_line(dict, section, line) ==
    [dict EXCEPT ![section] = Append(@, line)]

\* variants of heading_outcome: `<=` for `<` at the override threshold; no
\* override threshold at all; a label "other" resetting the section; the
\* override threshold applied to a heading of the current section too
heading_outcome_strict(current, label) ==
    IF label.category # "other"
    THEN IF current # label.category /\ label.score <= override_threshold
         THEN [append |-> TRUE, section |-> current]
         ELSE [append |-> FALSE, section |-> label.category]
    ELSE [append |-> TRUE, section |-> current]

heading_outcome_eager(current, label) ==
    IF label.category # "other"
    THEN [append |-> FALSE, section |-> label.category]
    ELSE [append |-> TRUE, section |-> current]

heading_outcome_reset(current, label) ==
    IF label.category # "other"
    THEN IF current # label.category /\ label.score < override_threshold
         THEN [append |-> TRUE, section |-> current]
         ELSE [append |-> FALSE, section |-> label.category]
    ELSE [append |-> TRUE, section |-> "other"]

heading_outcome_unsure(current, label) ==
    IF label.category # "other"
    THEN IF label.score < override_threshold
         THEN [append |-> TRUE, section |-> current]
         ELSE [append |-> FALSE, section |-> label.category]
    ELSE [append |-> TRUE, section |-> current]

\* the branch a scored heading-shaped line takes: whether the line is appended to
\* the current section, and the section that is current afterwards
heading_outcome(current, label) ==
    IF label.category # "other"
    THEN IF current # label.category /\ label.score < override_threshold
         THEN [append |-> TRUE, section |-> current]
         ELSE [append |-> FALSE, section |-> label.category]
    ELSE [append |-> TRUE, section |-> current]

\* one loop iteration on a line that is not heading-shaped
AppendContent ==
    /\ pc = "loop"
    /\ idx <= Len(lines)
    /\ ~ is_potential_heading(lines[idx], max_words_default, uppercase_ratio_default)
    /\ sections_dict' = append_line(sections_dict, current_section, lines[idx])
    /\ placed' = [placed EXCEPT ![current_section] = Append(@, idx)]
    /\ previous_section' = current_section
    /\ idx' = idx + 1
    /\ UNCHANGED <<text, lines, current_section, predicted_category, best_score,
                   consumed, result, pc>>
    /\ UNCHANGED frame
    /\ UNCHANGED fault_vars

\* one loop iteration on a heading-shaped line, the scorer returning one of labels
ScoreHeadingWith(labels) ==
    /\ pc = "loop"
    /\ idx <= Len(lines)
    /\ is_potential_heading(lines[idx], max_words_default, uppercase_ratio_default)
    /\ \E label \in labels :
         LET outcome == heading_outcome(current_section, label)
         IN  /\ predicted_category' = label.category
             /\ best_score' = label.score
             /\ current_section' = outcome.section
             /\ IF outcome.append
                THEN /\ sections_dict' =
                          append_line(sections_dict, current_section, lines[idx])
                     /\ placed' = [placed EXCEPT ![current_section] = Append(@, idx)]
                     /\ UNCHANGED consumed
                ELSE /\ consumed' = consumed \cup {idx}
                     /\ UNCHANGED <<sections_dict, placed>>
    /\ previous_section' = current_section
    /\ idx' = idx + 1
    /\ UNCHANGED <<text, lines, result, pc>>
    /\ UNCHANGED frame

\* one loop iteration on a heading-shaped line, the provider answering anything
ScoreHeading == ScoreHeadingWith(ScorerResults) /\ UNCHANGED fault_vars

\* "\n".join(value).strip()
section_text(value) == strip(join("\n", value))

\* a variant of sections_to_strings: a section without lines gets no key
sections_to_strings_nonempty(dict) ==
    [key \in {k \in DOMAIN dict : dict[k] # <<>>} |-> section_text(dict[key])]

\* the conversion of every list of the dict to a string
sections_to_strings(dict) ==
    [key \in DOMAIN dict |-> section_text(dict[key])]

\* the end of the loop and the return
Finish ==
    /\ pc = "loop"
    /\ idx > Len(lines)
    /\ result' = sections_to_strings(sections_dict)
    /\ pc' = "done"
    /\ UNCHANGED <<text, lines, idx, current_section, previous_section, sections_dict,
                   predicted_category, best_score, consumed, placed>>
    /\ UNCHANGED frame
    /\ UNCHANGED fault_vars

Next == AppendContent \/ ScoreHeading \/ Finish

Spec == Init /\ [][Next]_vars

TypeOK ==
    /\ idx \in 1..(Len(lines) + 1)
    /\ current_section \in Categories
    /\ previous_section \in Categories
    /\ predicted_category \in Categories \cup {"unset"}
    /\ pc \in {"idle", "loop", "done", "raised"}

-----------------------------------------------------------------------------
(* The pass under the exact-match similarity provider: nlp(x) is x, and    *)
(* the similarity of two texts is 1.0 when they are equal and 0.0 if not.  *)

ScenarioLen == 5

JohnDoe == <<"J", "o", "h", "n", " ", "D", "o", "e">>
EducationHeading == <<"E", "D", "U", "C", "A", "T", "I", "O", "N">>
ComputerScience == <<"B", "S", " ", "C", "o", "m", "p", "u", "t", "e", "r", " ", "S", "c",
                   "i", "e", "n", "c", "e">>
ExperienceHeading == <<"E", "X", "P", "E", "R", "I", "E", "N", "C", "E">>
EngineerAtAcme == <<"E", "n", "g", "i", "n", "e", "e", "r", " ", "a", "t", " ", "A", "c",
                  "m", "e">>

\* the five lines of the scenario, and a line that is not heading-shaped
ScenarioLines ==
    {JohnDoe, EducationHeading, ComputerScience, ExperienceHeading, EngineerAtAcme,
     ContentLine}

ScenarioDocuments == UNION {[1..n -> ScenarioLines] : n \in 1..ScenarioLen}

\* line_doc.similarity(syn_doc) for every synonym, under the exact-match provider
exact_match_answer(line) ==
    [syn \in Synonyms |-> IF lower(line) = spelling[syn] THEN 100 ELSE 0]

InitScenario ==
    InitDocument(ScenarioDocuments) /\ FunctionsIdle /\ FaultsIdle /\ BatchIdle

\* one loop iteration on a heading-shaped line under the exact-match provider
ScoreHeadingExact ==
    /\ pc = "loop"
    /\ idx <= Len(lines)
    /\ ScoreHeadingWith({get_section_label_with_score(exact_match_answer(lines[idx]),
                                                      synonyms_map,
                                                      base_threshold_default)})
    /\ UNCHANGED fault_vars

NextScenario == AppendContent \/ ScoreHeadingExact \/ Finish

SpecScenario == InitScenario /\ [][NextScenario]_vars

-----------------------------------------------------------------------------
(* Calls of the scorer on its own.                                         *)

\* answers in which two synonyms score above the rest
TwoPeakAnswers ==
    {[syn \in Synonyms |-> IF syn = at THEN peak
                           ELSE IF syn = also THEN second ELSE 0] :
        at \in Synonyms, also \in Synonyms, peak \in Scores, second \in Scores}

ScorerInputs == SimAnswers \cup TwoPeakAnswers

InitScorer ==
    /\ PassIdle
    /\ FaultsIdle
    /\ BatchIdle
    /\ \E sim \in ScorerInputs : scorer_sim = sim
    /\ scorer_out = [category |-> "unset", score |-> -1]
    /\ heading_in = [line |-> <<>>, max_words |-> max_words_default,
                     uppercase_ratio |-> uppercase_ratio_default]
    /\ heading_out = [returned |-> FALSE, value |-> FALSE]

\* get_section_label_with_score(line, nlp, synonyms_map, base_threshold=0.65)
CallScorer ==
    /\ scorer_out.category = "unset"
    /\ scorer_out' = get_section_label_with_score(scorer_sim, synonyms_map,
                                                  base_threshold_default)
    /\ UNCHANGED <<pass_vars, scorer_sim, heading_in, heading_out, fault_vars,
                   batch_vars, workers, service_vars>>

NextScorer == CallScorer

SpecScorer == InitScorer /\ [][NextScorer]_vars

-----------------------------------------------------------------------------
(* Calls of is_potential_heading on its own.                               *)

FiveWordsLine == <<"a", " ", "b", " ", " ", "c", " ", "d", "\t", "e">>
SevenTenthsLine == <<"A", " ", "B", " ", "C", " ", "D", " ", "E", " ", "F", " ", "G",
                     " ", "a", " ", "b", " ", "c", "1">>
HalfCapsLine == <<"A", " ", "B", " ", "C", " ", "a", " ", "b", " ", "c">>
AllCapsLine == <<" ", "A", " ", "B", " ", "C", " ", "D", " ", "E", " ", "F", "-">>
OneWordLine == <<"\t", "x">>

HeadingLines == LinePool \cup {FiveWordsLine, SevenTenthsLine, HalfCapsLine,
                               AllCapsLine, OneWordLine}

MaxWordsChoices == {1, 4, 5, 6}

UppercaseRatioChoices == {50, 70, 90}

InitHeading ==
    /\ PassIdle
    /\ FaultsIdle
    /\ BatchIdle
    /\ scorer_sim = [syn \in Synonyms |-> 0]
    /\ scorer_out = [category |-> "unset", score |-> -1]
    /\ \E line \in HeadingLines, max_words \in MaxWordsChoices,
          uppercase_ratio \in UppercaseRatioChoices :
         heading_in = [line |-> line, max_words |-> max_words,
                       uppercase_ratio |-> uppercase_ratio]
    /\ heading_out = [returned |-> FALSE, value |-> FALSE]

\* is_potential_heading(line, max_words, uppercase_ratio)
CallHeading ==
    /\ ~ heading_out.returned
    /\ heading_out' =
         [returned |-> TRUE,
          value |-> is_potential_heading(heading_in.line, heading_in.max_words,
                                         heading_in.uppercase_ratio)]
    /\ UNCHANGED <<pass_vars, scorer_sim, scorer_out, heading_in, fault_vars,
                   batch_vars, workers, service_vars>>

NextHeading == CallHeading

SpecHeading == InitHeading /\ [][NextHeading]_vars

-----------------------------------------------------------------------------
(* The pass with a similarity provider that can fail: a call of nlp or of  *)
(* similarity raises, or similarity returns a value outside [0,1].         *)

\* what the provider can raise
ProviderExceptions == {"ValueError", "OSError"}

\* values outside [0,1]
OutOfRangeScores == {-20, 150}

\* answers with one value outside [0,1]
OutOfRangeAnswers ==
    {[syn \in Synonyms |-> IF syn = at THEN bad ELSE rest] :
        at \in Synonyms, bad \in OutOfRangeScores, rest \in Scores}

\* what the scorer returns on them
OutOfRangeResults ==
    {get_section_label_with_score(sim, synonyms_map, base_threshold_default) :
        sim \in OutOfRangeAnswers}

\* a variant of ScoreHeadingRaises: the exception is caught in the scorer and the
\* line scored 0.0
ScoreHeadingSwallows ==
    /\ pc = "loop"
    /\ idx <= Len(lines)
    /\ ScoreHeadingWith({[category |-> "other", score |-> 0]})
    /\ \E exc \in ProviderExceptions : provider_fault' = exc
    /\ UNCHANGED raised

\* one loop iteration on a heading-shaped line during which the provider raises:
\* no handler encloses the calls, so the exception leaves the function
ScoreHeadingRaises ==
    /\ pc = "loop"
    /\ idx <= Len(lines)
    /\ is_potential_heading(lines[idx], max_words_default, uppercase_ratio_default)
    /\ \E exc \in ProviderExceptions :
         /\ provider_fault' = exc
         /\ raised' = exc
    /\ pc' = "raised"
    /\ UNCHANGED <<text, lines, idx, current_section, previous_section, sections_dict,
                   predicted_category, best_score, consumed, placed, result>>
    /\ UNCHANGED frame

\* one loop iteration on a heading-shaped line for which the provider returns a
\* value outside [0,1]: the scorer compares it like any other score
ScoreHeadingOutOfRange ==
    /\ pc = "loop"
    /\ idx <= Len(lines)
    /\ ScoreHeadingWith(OutOfRangeResults)
    /\ provider_fault' = "out_of_range"
    /\ UNCHANGED raised

InitFaulty == Init

NextFaulty ==
    \/ AppendContent
    \/ ScoreHeading
    \/ ScoreHeadingRaises
    \/ ScoreHeadingOutOfRange
    \/ Finish

SpecFaulty == InitFaulty /\ [][NextFaulty]_vars

-----------------------------------------------------------------------------
(* parse_resume and the run of the module: one parse_resume call per file. *)
(* A file is its extension, the texts of its pages (PDF) or paragraphs     *)
(* (DOCX), and fail_at: 0 when the read succeeds, k when the read raises   *)
(* at the k-th page or paragraph (1: the file cannot be opened).  The      *)
(* tokens of the result are not modelled.                                  *)

BatchSize == 2

PdfExt == <<".", "p", "d", "f">>
DocxExt == <<".", "d", "o", "c", "x">>

Extensions == {PdfExt, <<".", "D", "O", "C", "X">>, <<".", "t", "x", "t">>}

FilePages == <<ShortLine, CapsLine>>

Files ==
    {[ext |-> ext, pages |-> FilePages, fail_at |-> fail_at] :
        ext \in Extensions, fail_at \in 0..Len(FilePages)}

\* the pages or paragraphs read before the read raises
pages_read(file) ==
    IF file.fail_at = 0 THEN file.pages
    ELSE SubSeq(file.pages, 1, file.fail_at - 1)

\* the concatenation of the texts, each followed by tail
RECURSIVE concat(_, _)
concat(parts, tail) ==
    IF parts = <<>> THEN <<>>
    ELSE parts[1] \o tail \o concat(Tail(parts), tail)

\* parse_pdf: the exception of a failed read is caught and the text so far returned
parse_pdf(file) == concat(pages_read(file), <<>>)

\* parse_docx: the same, every paragraph followed by a line break
parse_docx(file) == concat(pages_read(file), <<"\n">>)

\* the read of the file raised before it gave any text
extraction_failed(file) == file.fail_at = 1

\* the extension is one parse_resume reads
supported(file) == lower(file.ext) \in {PdfExt, DocxExt}

NoSections == [key \in Categories |-> <<>>]

InitBatch ==
    /\ PassIdle
    /\ FunctionsIdle
    /\ FaultsIdle
    /\ files \in [1..BatchSize -> Files]
    /\ file_pos = 1
    /\ reports = <<>>
    /\ workers = <<>>
    /\ ServicesIdle

\* parse_resume on a file of another extension: a message is printed, None returned
ParseResumeUnsupported ==
    /\ pc = "idle"
    /\ file_pos <= Len(files)
    /\ ~ supported(files[file_pos])
    /\ reports' = Append(reports, [value |-> "None", file_type |-> "None",
                                   raw_text |-> <<>>, sections |-> NoSections])
    /\ file_pos' = file_pos + 1
    /\ UNCHANGED <<pass_vars, function_vars, fault_vars, files, workers, service_vars>>

\* parse_resume on a PDF or DOCX file, up to the start of the loop of
\* extract_sections_spacy on the extracted text
ParseResumeStart ==
    /\ pc = "idle"
    /\ file_pos <= Len(files)
    /\ supported(files[file_pos])
    /\ text' = (IF lower(files[file_pos].ext) = PdfExt
                THEN parse_pdf(files[file_pos])
                ELSE parse_docx(files[file_pos]))
    /\ lines' = split_on(text', "\n", <<>>)
    /\ idx' = 1
    /\ current_section' = initial_section
    /\ previous_section' = initial_section
    /\ sections_dict' = [key \in Categories |-> <<>>]
    /\ predicted_category' = "unset"
    /\ best_score' = -1
    /\ consumed' = {}
    /\ placed' = [key \in Categories |-> <<>>]
    /\ result' = "none"
    /\ pc' = "loop"
    /\ UNCHANGED <<function_vars, fault_vars, batch_vars, workers, service_vars>>

\* the return of parse_resume with the sections of the pass
ParseResumeReturn ==
    /\ pc = "done"
    /\ file_pos <= Len(files)
    /\ reports' = Append(reports,
                         [value |-> "dict",
                          file_type |-> (IF lower(files[file_pos].ext) = PdfExt
                                         THEN "PDF" ELSE "DOCX"),
                          raw_text |-> text,
                          sections |-> result])
    /\ file_pos' = file_pos + 1
    /\ pc' = "idle"
    /\ UNCHANGED <<text, lines, idx, current_section, previous_section, sections_dict,
                   predicted_category, best_score, consumed, placed, result>>
    /\ UNCHANGED <<function_vars, fault_vars, files, workers, service_vars>>

NextBatch ==
    \/ ParseResumeUnsupported
    \/ ParseResumeStart
    \/ AppendContent
    \/ ScoreHeading
    \/ ScoreHeadingRaises
    \/ Finish
    \/ ParseResumeReturn

SpecBatch == InitBatch /\ [][NextBatch]_vars

-----------------------------------------------------------------------------
(* Two calls of extract_sections_spacy that run concurrently, their loop   *)
(* iterations interleaved in any order, under the exact-match provider.    *)
(* Every call has its own locals; the vocabulary is only read.             *)

ConcurrentLines == 2

Workers == {1, 2}

ConcurrentLinePool == {ContentLine, EducationHeading, ExperienceHeading}

ConcurrentDocuments ==
    UNION {[1..n -> ConcurrentLinePool] : n \in 1..ConcurrentLines}

\* the locals of a call at the start of its loop
worker_start(doc) ==
    [text |-> join("\n", doc),
     lines |-> split_on(join("\n", doc), "\n", <<>>),
     idx |-> 1,
     current_section |-> initial_section,
     sections_dict |-> [key \in Categories |-> <<>>],
     result |-> NoSections,
     pc |-> "loop"]

\* a variant of worker_section: current_section is one module-level variable,
\* here the one of the first call
worker_section_shared(ws, w) == ws[1].current_section

\* current_section as call w reads it: its own local
worker_section(ws, w) == ws[w].current_section

InitConcurrent ==
    /\ PassIdle
    /\ ServicesIdle
    /\ FunctionsIdle
    /\ FaultsIdle
    /\ files = <<>>
    /\ file_pos = 1
    /\ reports = <<>>
    /\ \E docs \in [Workers -> ConcurrentDocuments] :
         workers = [w \in Workers |-> worker_start(docs[w])]

\* one loop iteration of call w
WorkerLine(w) ==
    LET me == workers[w]
        current == worker_section(workers, w)
    IN  /\ me.pc = "loop"
        /\ me.idx <= Len(me.lines)
        /\ LET line == me.lines[me.idx]
               label == get_section_label_with_score(exact_match_answer(line),
                                                     synonyms_map,
                                                     base_threshold_default)
               outcome == heading_outcome(current, label)
           IN  IF is_potential_heading(line, max_words_default,
                                       uppercase_ratio_default)
               THEN workers' =
                      [workers EXCEPT
                         ![w].current_section = outcome.section,
                         ![w].sections_dict =
                             IF outcome.append THEN append_line(@, current, line)
                             ELSE @,
                         ![w].idx = @ + 1]
               ELSE workers' =
                      [workers EXCEPT
                         ![w].sections_dict = append_line(@, current, line),
                         ![w].idx = @ + 1]
        /\ UNCHANGED <<pass_vars, function_vars, fault_vars, batch_vars, service_vars>>

\* the end of the loop of call w and its return
WorkerFinish(w) ==
    /\ workers[w].pc = "loop"
    /\ workers[w].idx > Len(workers[w].lines)
    /\ workers' = [workers EXCEPT
                     ![w].result = sections_to_strings(workers[w].sections_dict),
                     ![w].pc = "done"]
    /\ UNCHANGED <<pass_vars, function_vars, fault_vars, batch_vars, service_vars>>

NextConcurrent == \E w \in Workers : WorkerLine(w) \/ WorkerFinish(w)

SpecConcurrent == InitConcurrent /\ [][NextConcurrent]_vars

\* extract_sections_spacy run alone on the lines ls from position i on, under the
\* exact-match provider
RECURSIVE pass_alone(_, _, _, _)
pass_alone(ls, i, current, dict) ==
    IF i > Len(ls) THEN sections_to_strings(dict)
    ELSE LET label == get_section_label_with_score(exact_match_answer(ls[i]),
                                                   synonyms_map,
                                                   base_threshold_default)
             outcome == heading_outcome(current, label)
         IN  IF is_potential_heading(ls[i], max_words_default, uppercase_ratio_default)
             THEN pass_alone(ls, i + 1, outcome.section,
                             IF outcome.append THEN append_line(dict, current, ls[i])
                             ELSE dict)
             ELSE pass_alone(ls, i + 1, current, append_line(dict, current, ls[i]))

segment_alone(t) ==
    pass_alone(split_on(t, "\n", <<>>), 1, initial_section,
               [key \in Categories |-> <<>>])

-----------------------------------------------------------------------------
(* match_resume_to_jobs (src/models/matching_scoring.py).  A vector is a   *)
(* sequence of integers.  A cosine similarity c is kept exactly, as the    *)
(* fraction num / den = sign(c) * c^2 with den > 0; t |-> sign(t) * t^2 is *)
(* strictly increasing, so the order of the scores is the order of these   *)
(* fractions.                                                              *)

MaxJobs == 2

RECURSIVE dot(_, _)
dot(a, b) ==
    IF a = <<>> THEN 0 ELSE Head(a) * Head(b) + dot(Tail(a), Tail(b))

compute_cosine_similarity(vector_a, vector_b) ==
    LET norm_a_sq == dot(vector_a, vector_a)
        norm_b_sq == dot(vector_b, vector_b)
        d == dot(vector_a, vector_b)
    IN  IF norm_a_sq = 0 \/ norm_b_sq = 0 THEN [num |-> 0, den |-> 1]
        ELSE [num |-> IF d < 0 THEN -(d * d) ELSE d * d,
              den |-> norm_a_sq * norm_b_sq]

\* x > y on scores
score_gt(x, y) == x.num * y.den > y.num * x.den

\* scores after the loop over job_vectors: one (job_id, score) pair per job
RECURSIVE all_scores(_, _)
all_scores(resume_vector, job_vectors) ==
    IF job_vectors = <<>> THEN <<>>
    ELSE <<[job_id |-> Head(job_vectors).job_id,
            score |-> compute_cosine_similarity(resume_vector,
                                                Head(job_vectors).job_vec)]>>
         \o all_scores(resume_vector, Tail(job_vectors))

\* entry put into a list sorted by descending score, before the first entry
\* that does not score higher (the sort is stable)
RECURSIVE insert_desc(_, _)
insert_desc(entry, sorted) ==
    IF sorted = <<>> THEN <<entry>>
    ELSE IF score_gt(Head(sorted).score, entry.score)
         THEN <<Head(sorted)>> \o insert_desc(entry, Tail(sorted))
         ELSE <<entry>> \o sorted

\* a variant of sorted_desc: the list is left in the order of job_vectors
sorted_desc_unsorted(scores) == scores

\* sorted(scores, key=lambda x: x[1], reverse=True)
RECURSIVE sorted_desc(_)
sorted_desc(scores) ==
    IF scores = <<>> THEN <<>>
    ELSE insert_desc(Head(scores), sorted_desc(Tail(scores)))

\* scores[:top_n], top_n >= 0
first_n(scores, top_n) ==
    SubSeq(scores, 1, IF top_n < Len(scores) THEN top_n ELSE Len(scores))

NoId == "None"

\* a variant of cache_hit: the stored scores are never looked up
cache_hit_never(with_storage, storage, resume_id) == FALSE

\* storage_dict is not None and resume_id is not None and resume_id in storage_dict
cache_hit(with_storage, storage, resume_id) ==
    /\ with_storage
    /\ resume_id # NoId
    /\ resume_id \in DOMAIN storage

\* the list returned, and the caller's dict after the call
match_resume_to_jobs(resume_vector, job_vectors, top_n, store_results, with_storage, storage, resume_id) ==
    IF cache_hit(with_storage, storage, resume_id)
    THEN [returned |-> first_n(sorted_desc(storage[resume_id]), top_n),
          storage |-> storage]
    ELSE LET scores == sorted_desc(all_scores(resume_vector, job_vectors))
         IN  [returned |-> first_n(scores, top_n),
              storage |-> IF store_results /\ with_storage /\ resume_id # NoId
                          THEN (resume_id :> scores) @@ storage
                          ELSE storage]

ResumeVectors == {<<1, 2, 3>>, <<-3, -2, -1>>}

JobPool == {[job_id |-> "job1", job_vec |-> <<1, 1, 1>>],
            [job_id |-> "job2", job_vec |-> <<2, 2, 1>>],
            [job_id |-> "job3", job_vec |-> <<0, 0, 0>>]}

\* lists of jobs with distinct job ids
JobLists ==
    {jl \in UNION {[1..n -> JobPool] : n \in 0..MaxJobs} :
        \A i, j \in 1..Len(jl) : i # j => jl[i] # jl[j]}

TopNChoices == {1, 2}

\* how a call is made: without a dict, with a dict but no resume_id, with both
\* and store_results False or True
CallModes ==
    {[with_storage |-> FALSE, resume_id |-> NoId, store_results |-> TRUE],
     [with_storage |-> TRUE, resume_id |-> NoId, store_results |-> TRUE],
     [with_storage |-> TRUE, resume_id |-> "resume123", store_results |-> FALSE],
     [with_storage |-> TRUE, resume_id |-> "resume123", store_results |-> TRUE]}

InitMatching ==
    /\ PassIdle
    /\ FunctionsIdle
    /\ FaultsIdle
    /\ files = <<>>
    /\ file_pos = 1
    /\ reports = <<>>
    /\ workers = <<>>
    /\ ServicesIdle

\* one call of match_resume_to_jobs with the caller's dict (or with None)
CallMatch ==
    \E resume_vector \in ResumeVectors, job_vectors \in JobLists,
       top_n \in TopNChoices, mode \in CallModes :
        LET store_results == mode.store_results
            with_storage == mode.with_storage
            resume_id == mode.resume_id
            out == match_resume_to_jobs(resume_vector, job_vectors, top_n,
                                        store_results, with_storage, storage_dict,
                                        resume_id)
        IN  /\ match_call' = [made |-> TRUE,
                              resume_vector |-> resume_vector,
                              job_vectors |-> job_vectors,
                              top_n |-> top_n,
                              store_results |-> store_results,
                              with_storage |-> with_storage,
                              resume_id |-> resume_id,
                              returned |-> out.returned]
            /\ storage_dict' = out.storage
            /\ UNCHANGED <<pass_vars, function_vars, fault_vars, batch_vars, workers,
                           filter_call, fetch_vars>>

NextMatching == CallMatch

SpecMatching == InitMatching /\ [][NextMatching]_vars

-----------------------------------------------------------------------------
(* filter_by_salary_range (src/models/filtering.py).  A job is its pair of *)
(* salary fields; None, and a missing key (job.get gives None), is         *)
(* NoSalary.                                                               *)

MaxFilterJobs == 2

NoSalary == -1

JobSalaries == {40, 60, 80}

RequestedSalaries == {50, 70}

SalaryJobs ==
    {job \in [min_salary : JobSalaries \cup {NoSalary},
              max_salary : JobSalaries \cup {NoSalary}] :
        (job.min_salary # NoSalary /\ job.max_salary # NoSalary)
        => job.min_salary <= job.max_salary}

SalaryJobLists == UNION {[1..n -> SalaryJobs] : n \in 0..MaxFilterJobs}

\* the test of the loop body: the job is appended
salary_kept(job, min_salary, max_salary) ==
    LET job_min == job.min_salary
        job_max == job.max_salary
    IN  /\ ~ (job_min = NoSalary \/ job_max = NoSalary)
        /\ ~ (min_salary # NoSalary /\ job_max < min_salary)
        /\ ~ (max_salary # NoSalary /\ job_min > max_salary)

RECURSIVE filter_by_salary_range(_, _, _)
filter_by_salary_range(jobs, min_salary, max_salary) ==
    IF jobs = <<>> THEN <<>>
    ELSE (IF salary_kept(Head(jobs), min_salary, max_salary)
          THEN <<Head(jobs)>> ELSE <<>>)
         \o filter_by_salary_range(Tail(jobs), min_salary, max_salary)

InitFilter ==
    /\ PassIdle
    /\ FunctionsIdle
    /\ FaultsIdle
    /\ files = <<>>
    /\ file_pos = 1
    /\ reports = <<>>
    /\ workers = <<>>
    /\ FetchIdle
    /\ storage_dict = <<>>
    /\ match_call = [made |-> FALSE]
    /\ \E jobs \in SalaryJobLists,
          min_salary \in RequestedSalaries \cup {NoSalary},
          max_salary \in RequestedSalaries \cup {NoSalary} :
         filter_call = [made |-> FALSE, jobs |-> jobs, min_salary |-> min_salary,
                        max_salary |-> max_salary, returned |-> <<>>]

CallFilter ==
    /\ ~ filter_call.made
    /\ filter_call' =
         [filter_call EXCEPT
            !.made = TRUE,
            !.returned = filter_by_salary_range(filter_call.jobs,
                                                filter_call.min_salary,
                                                filter_call.max_salary)]
    /\ UNCHANGED <<pass_vars, function_vars, fault_vars, batch_vars, workers,
                   storage_dict, match_call, fetch_vars>>

NextFilter == CallFilter

SpecFilter == InitFilter /\ [][NextFilter]_vars

-----------------------------------------------------------------------------
(* fetch_jobs of AdzunaFetcher and JoobleFetcher                           *)
(* (src/data_ingestion/data_ingestion.py).  One step is one position of    *)
(* the code: the start of a page, one HTTP request with what follows it,   *)
(* the return.  A job of a response is the pair of what the request asked  *)
(* for (the page number for Adzuna, the offset for Jooble) and its rank in *)
(* the response.                                                           *)

MaxPages == 2

max_retries == 3

initial_backoff == 30

results_per_page_default == 10

Fetchers == {"adzuna", "jooble"}

\* numbers of jobs in a successful response
ResponseSizes == {0, 2}

\* what the request of the page under way asks for
request_key == IF fetcher = "adzuna" THEN page_num ELSE offset

response_jobs(key, n) == [i \in 1..n |-> <<key, i>>]

\* a variant of loop_continues: one more turn of the while loop
loop_continues_once_more(r) == r <= max_retries + 1

\* while retries <= max_retries
loop_continues(r) == r <= max_retries

\* a variant of next_backoff: the backoff grows by its initial value
next_backoff_linear(b) == b + initial_backoff

\* backoff *= 2
next_backoff(b) == b * 2

\* a variant of extended: the jobs of a page go in front
extended_front(jobs_so_far, jobs) == jobs \o jobs_so_far

\* all_jobs.extend(jobs)
extended(jobs_so_far, jobs) == jobs_so_far \o jobs

\* offset += results_per_page, in JoobleFetcher only
next_offset == IF fetcher = "jooble" THEN offset + results_per_page ELSE offset

InitFetch ==
    /\ PassIdle
    /\ FunctionsIdle
    /\ FaultsIdle
    /\ files = <<>>
    /\ file_pos = 1
    /\ reports = <<>>
    /\ workers = <<>>
    /\ MatchIdle
    /\ fetcher \in Fetchers
    /\ pages \in 0..MaxPages
    /\ results_per_page = results_per_page_default
    /\ page_num = 1
    /\ retries = 0
    /\ backoff = 0
    /\ offset = 0
    /\ all_jobs = <<>>
    /\ attempts = 0
    /\ sleeps = <<>>
    /\ page_log = <<>>
    /\ fetch_pc = "for"

fetch_frame == <<pass_vars, function_vars, fault_vars, batch_vars, workers, match_vars,
                 fetcher, pages, results_per_page>>

\* the head of the for loop with a page left: backoff, max_retries, retries
StartPage ==
    /\ fetch_pc = "for"
    /\ page_num <= pages
    /\ backoff' = initial_backoff
    /\ retries' = 0
    /\ attempts' = 0
    /\ sleeps' = <<>>
    /\ fetch_pc' = "while"
    /\ UNCHANGED <<page_num, offset, all_jobs, page_log, fetch_frame>>

\* the while loop is left: the for loop goes to the next page
EndPage(ok, response) ==
    /\ page_log' = Append(page_log,
                          [page |-> page_num, offset |-> offset, ok |-> ok,
                           response |-> response, attempts |-> attempts',
                           sleeps |-> sleeps', before |-> all_jobs,
                           after |-> all_jobs'])
    /\ page_num' = page_num + 1
    /\ offset' = next_offset
    /\ fetch_pc' = "for"

StayInPage == UNCHANGED <<page_num, offset, page_log, fetch_pc>>

\* a request answered with status 429
Request429 ==
    /\ fetch_pc = "while"
    /\ loop_continues(retries)
    /\ attempts' = attempts + 1
    /\ sleeps' = Append(sleeps, [seconds |-> backoff, after |-> "429"])
    /\ backoff' = next_backoff(backoff)
    /\ retries' = retries + 1
    /\ all_jobs' = all_jobs
    /\ IF loop_continues(retries + 1) THEN StayInPage ELSE EndPage(FALSE, <<>>)
    /\ UNCHANGED fetch_frame

\* a request that raises a RequestException (raise_for_status included)
RequestException ==
    /\ fetch_pc = "while"
    /\ loop_continues(retries)
    /\ attempts' = attempts + 1
    /\ all_jobs' = all_jobs
    /\ IF retries < max_retries
       THEN /\ sleeps' = Append(sleeps, [seconds |-> backoff, after |-> "exception"])
            /\ backoff' = next_backoff(backoff)
            /\ retries' = retries + 1
            /\ IF loop_continues(retries + 1) THEN StayInPage
               ELSE EndPage(FALSE, <<>>)
       ELSE /\ UNCHANGED <<sleeps, backoff, retries>>
            /\ EndPage(FALSE, <<>>)
    /\ UNCHANGED fetch_frame

\* a request answered with the jobs of the page
RequestSuccess ==
    /\ fetch_pc = "while"
    /\ loop_continues(retries)
    /\ \E n \in ResponseSizes :
         LET jobs == response_jobs(request_key, n)
         IN  /\ attempts' = attempts + 1
             /\ all_jobs' = extended(all_jobs, jobs)
             /\ UNCHANGED <<sleeps, backoff, retries>>
             /\ EndPage(TRUE, jobs)
    /\ UNCHANGED fetch_frame

\* the for loop is over: return all_jobs
FetchReturn ==
    /\ fetch_pc = "for"
    /\ page_num > pages
    /\ fetch_pc' = "done"
    /\ UNCHANGED <<page_num, retries, backoff, offset, all_jobs, attempts, sleeps,
                   page_log, fetch_frame>>

NextFetch ==
    StartPage \/ Request429 \/ RequestException \/ RequestSuccess \/ FetchReturn

SpecFetch == InitFetch /\ [][NextFetch]_vars

\* every request is answered or raises, and every sleep ends
SpecFetchLive == SpecFetch /\ WF_vars(NextFetch)

-----------------------------------------------------------------------------
(* Properties.                                                             *)

\* the step processes one line
ProcessedLine == idx' = idx + 1

\* the line at position i is heading-shaped at the defaults of the caller
HeadingShaped(i) ==
    is_potential_heading(lines[i], max_words_default, uppercase_ratio_default)

RECURSIVE SumOver(_, _)
SumOver(f, S) ==
    IF S = {} THEN 0
    ELSE LET x == CHOOSE y \in S : TRUE IN f[x] + SumOver(f, S \ {x})

\* number of lines appended to the four lists
AppendedCount == SumOver([c \in Categories |-> Len(sections_dict[c])], Categories)

\* number of times line i was appended or consumed
Dispositions(i) ==
    SumOver([c \in Categories |->
                Cardinality({k \in 1..Len(sections_dict[c]) :
                                k <= Len(placed[c]) /\ placed[c][k] = i})],
            Categories)
    + (IF i \in consumed THEN 1 ELSE 0)

\* C1 (coverage): at every point of the pass, and so after the last line, the
\* lines appended to the four lists plus the lines consumed as headings are
\* exactly the lines processed so far, each of them once; the lines are the
\* pieces of the text between line breaks, and all of them are processed
\* before the return.
C1_Coverage ==
    /\ join("\n", lines) = text
    /\ AppendedCount + Cardinality(consumed) = idx - 1
    /\ \A i \in 1..(idx - 1) : Dispositions(i) = 1
    /\ \A c \in Categories : Len(sections_dict[c]) = Len(placed[c])
    /\ pc = "done" => idx - 1 = Len(lines)

C1_Witness ==
    /\ pc = "done"
    /\ Len(lines) = 3
    /\ Cardinality(consumed) = 1
    /\ current_section # "other"
    /\ Len(sections_dict["other"]) = 1
    /\ Len(sections_dict[current_section]) = 1

\* C2 (confident switch): a heading-shaped line classified into a category
\* that is not "other", differs from the current one and scores at least the
\* override threshold makes that category current and is appended nowhere.
C2_ConfidentSwitch ==
    [][(/\ ProcessedLine
        /\ HeadingShaped(idx)
        /\ predicted_category' \notin {"other", current_section}
        /\ best_score' >= 75)
       => (/\ current_section' = predicted_category'
           /\ sections_dict' = sections_dict
           /\ idx \in consumed')]_vars

\* the example of the claim: "other", a first line scoring 0.90 for education
C2_Witness ==
    /\ idx = 2
    /\ previous_section = "other"
    /\ predicted_category = "education"
    /\ best_score = 90
    /\ current_section = "education"
    /\ consumed = {1}
    /\ \A c \in Categories : sections_dict[c] = <<>>

\* C3 (hysteresis resistance): a heading-shaped line classified into a category
\* that differs from the current one with a score in [0.65, 0.75) leaves the
\* current category unchanged and is appended to it, not consumed.
C3_Hysteresis ==
    [][(/\ ProcessedLine
        /\ HeadingShaped(idx)
        /\ predicted_category' # current_section
        /\ best_score' >= 65
        /\ best_score' < 75)
       => (/\ current_section' = current_section
           /\ sections_dict' =
                [sections_dict EXCEPT ![current_section] = Append(@, lines[idx])]
           /\ idx \notin consumed')]_vars

\* the example of the claim: "experience", a line scoring 0.70 for education
C3_Witness ==
    /\ idx > 1
    /\ HeadingShaped(idx - 1)
    /\ previous_section = "experience"
    /\ predicted_category = "education"
    /\ best_score = 70
    /\ current_section = "experience"
    /\ sections_dict["experience"] # <<>>
    /\ sections_dict["experience"][Len(sections_dict["experience"])] = lines[idx - 1]
    /\ (idx - 1) \notin consumed

\* C4 (no switch into "other"): the current category is "other" exactly until
\* the first heading is consumed and never becomes "other" again; a
\* heading-shaped line classified "other" scored below 0.65, is appended to
\* the current category and changes neither the category nor the other lists.
C4_NeverBackToOther ==
    [][/\ current_section # "other" => current_section' # "other"
       /\ (current_section' = "other") = (consumed' = {})
       /\ (/\ ProcessedLine
           /\ HeadingShaped(idx)
           /\ predicted_category' = "other")
          => (/\ best_score' < 65
              /\ current_section' = current_section
              /\ sections_dict' =
                   [sections_dict EXCEPT ![current_section] = Append(@, lines[idx])]
              /\ idx \notin consumed')]_vars

C4_Witness ==
    /\ idx = 3
    /\ consumed = {1}
    /\ HeadingShaped(2)
    /\ predicted_category = "other"
    /\ best_score = 64
    /\ previous_section = "skills"
    /\ current_section = "skills"
    /\ sections_dict["skills"] = <<lines[2]>>

\* C5 (re-affirmation): a heading-shaped line classified into the current
\* category, which is then not "other", is consumed: it is appended nowhere
\* and the current category is unchanged, whatever its score.
C5_Reaffirmation ==
    [][(/\ ProcessedLine
        /\ HeadingShaped(idx)
        /\ predicted_category' = current_section
        /\ current_section # "other")
       => (/\ current_section' = current_section
           /\ sections_dict' = sections_dict
           /\ consumed' = consumed \cup {idx}
           /\ idx \notin consumed)]_vars

\* two consecutive headings of one category, both at 0.75 or more
C5_Witness ==
    /\ idx = 3
    /\ consumed = {1, 2}
    /\ previous_section = "experience"
    /\ current_section = "experience"
    /\ predicted_category = "experience"
    /\ best_score >= 75
    /\ \A c \in Categories : sections_dict[c] = <<>>

\* C6 (content lines): a line that is not heading-shaped is appended verbatim
\* to the list of the current category; the current category and the locals
\* of the scorer are not touched, so the scorer was not run for it.
C6_ContentLine ==
    [][(/\ ProcessedLine
        /\ ~ HeadingShaped(idx))
       => (/\ sections_dict' =
                [sections_dict EXCEPT ![current_section] = Append(@, lines[idx])]
           /\ current_section' = current_section
           /\ predicted_category' = predicted_category
           /\ best_score' = best_score
           /\ consumed' = consumed)]_vars

C6_Witness ==
    /\ idx = 3
    /\ consumed = {1}
    /\ lines[2] = ContentLine
    /\ current_section = "skills"
    /\ previous_section = "skills"
    /\ predicted_category = "skills"
    /\ sections_dict["skills"] = <<ContentLine>>

Characters ==
    UpperChars \cup LowerChars \cup Whitespace
    \cup {"0", "1", "2", "3", "4", "5", "6", "7", "8", "9"}

\* C7 (keys of the section map): the returned map has exactly the keys
\* education, experience, skills and other, each mapped to a string.
C7_FourKeys ==
    pc = "done" =>
        /\ DOMAIN result = {"education", "experience", "skills", "other"}
        /\ \A key \in DOMAIN result : result[key] \in Seq(Characters)

\* the empty text
C7_Witness ==
    /\ pc = "done"
    /\ text = <<>>
    /\ \A key \in {"education", "experience", "skills", "other"} : result[key] = <<>>

\* C8 (default category): the pass starts in "other", and a document without a
\* heading-shaped line comes back with its whole text, trimmed, under "other"
\* and the empty string under the three other keys.
C8_DefaultCategory ==
    /\ idx = 1 => current_section = "other"
    /\ (pc = "done" /\ \A i \in 1..Len(lines) : ~ HeadingShaped(i))
       => /\ result["other"] = strip(text)
          /\ \A key \in {"education", "experience", "skills"} : result[key] = <<>>

C8_Witness ==
    /\ pc = "done"
    /\ Len(lines) = 3
    /\ \A i \in 1..Len(lines) : ~ HeadingShaped(i)
    /\ result["other"] # <<>>
    /\ result["other"] # text

\* the lines of the document at the positions recorded for category c
PlacedLines(c) == [k \in 1..Len(placed[c]) |-> lines[placed[c][k]]]

\* C9 (order and form of the output): the list of every category holds the
\* lines appended to it in increasing document position, and the returned
\* string of the category is these lines joined by line breaks and trimmed.
C9_JoinedInOrder ==
    \A c \in Categories :
        /\ \A j, k \in 1..Len(placed[c]) : j < k => placed[c][j] < placed[c][k]
        /\ sections_dict[c] = PlacedLines(c)
        /\ pc = "done" => result[c] = strip(join("\n", PlacedLines(c)))

\* two lines under the category of a consumed heading
C9_Witness ==
    /\ pc = "done"
    /\ lines = <<ShortLine, ContentLine, DigitsLine>>
    /\ consumed = {1}
    /\ placed["education"] = <<2, 3>>
    /\ result["education"] = lstrip(ContentLine) \o <<"\n">> \o DigitsLine

\* every character of s is whitespace
IsBlank(s) == \A k \in 1..Len(s) : s[k] \in Whitespace

\* r is j without a whitespace-only prefix and a whitespace-only suffix, and r
\* neither starts nor ends with whitespace
TrimmedAtEndsOnly(j, r) ==
    /\ r # <<>> => (r[1] \notin Whitespace /\ r[Len(r)] \notin Whitespace)
    /\ \E a \in 0..Len(j) :
         /\ a + Len(r) <= Len(j)
         /\ SubSeq(j, a + 1, a + Len(r)) = r
         /\ IsBlank(SubSeq(j, 1, a))
         /\ IsBlank(SubSeq(j, a + Len(r) + 1, Len(j)))

\* C10 (blank lines): a blank line is never heading-shaped and is appended
\* verbatim to the current category, which it leaves unchanged; the joined
\* string of a category holds every appended line, blank ones included, and
\* the returned string differs from it only by whitespace removed at its two
\* ends.
C10_BlankLines ==
    [][/\ \A i \in 1..Len(lines) : IsBlank(lines[i]) => ~ HeadingShaped(i)
       /\ (ProcessedLine /\ IsBlank(lines[idx]))
          => (/\ sections_dict' =
                   [sections_dict EXCEPT ![current_section] = Append(@, lines[idx])]
              /\ current_section' = current_section)
       /\ pc' = "done"
          => \A c \in Categories :
                /\ split_on(join("\n", sections_dict'[c]), "\n", <<>>)
                     = (IF sections_dict'[c] = <<>> THEN <<BlankLine>>
                        ELSE sections_dict'[c])
                /\ TrimmedAtEndsOnly(join("\n", sections_dict'[c]), result'[c])]_vars

\* a whitespace-only line between two content lines, kept inside the output
C10_Witness ==
    /\ pc = "done"
    /\ lines = <<ContentLine, SpaceLine, DigitsLine>>
    /\ sections_dict["other"] = <<ContentLine, SpaceLine, DigitsLine>>
    /\ result["other"] =
         lstrip(ContentLine) \o <<"\n">> \o SpaceLine \o <<"\n">> \o DigitsLine

\* C11 as stated (every line contributes to exactly one category): every
\* processed line is at a position recorded for exactly one category.
C11_ExactlyOneCategory ==
    \A i \in 1..(idx - 1) :
        Cardinality({c \in Categories :
                        \E k \in 1..Len(placed[c]) : placed[c][k] = i}) = 1

\* the line of this step is a heading that the step consumes
ConsumedHeading ==
    /\ HeadingShaped(idx)
    /\ predicted_category' # "other"
    /\ (predicted_category' = current_section \/ best_score' >= 75)

\* C11 (amended): every processed line is appended once to the list of one
\* category and to no other list, except a heading-shaped line classified
\* into the current category, or into another one with a score of at least
\* 0.75, which is appended to no list.
C11_AtMostOneCategory ==
    [][ProcessedLine =>
          IF ConsumedHeading
          THEN sections_dict' = sections_dict
          ELSE \E c \in Categories :
                  sections_dict' = [sections_dict EXCEPT ![c] = Append(@, lines[idx])]]_vars

\* a content line under "other", then a heading that no category holds
C11_Witness ==
    /\ idx = 3
    /\ consumed = {2}
    /\ placed["other"] = <<1>>
    /\ sections_dict["other"] = <<lines[1]>>
    /\ \A c \in {"education", "experience", "skills"} : sections_dict[c] = <<>>

\* C12 (scenario): under the exact-match provider the lines John Doe,
\* EDUCATION, BS Computer Science, EXPERIENCE, Engineer at Acme come back as
\* other = John Doe, education = BS Computer Science, experience = Engineer
\* at Acme and skills empty.
C12_Scenario ==
    (/\ pc = "done"
     /\ lines = <<JohnDoe, EducationHeading, ComputerScience, ExperienceHeading,
                  EngineerAtAcme>>)
    => result = [other |-> JohnDoe, education |-> ComputerScience,
                 experience |-> EngineerAtAcme, skills |-> <<>>]

C12_Witness ==
    /\ pc = "done"
    /\ text = JohnDoe \o <<"\n">> \o EducationHeading \o <<"\n">> \o ComputerScience
              \o <<"\n">> \o ExperienceHeading \o <<"\n">> \o EngineerAtAcme
    /\ consumed = {2, 4}
    /\ result["experience"] = EngineerAtAcme

\* the largest value of a non-empty finite set of integers
MaxOf(S) == CHOOSE x \in S : \A y \in S : y <= x

\* the category whose synonym list holds syn
CategoryOf(syn) ==
    LET at == CHOOSE n \in 1..Len(synonyms_map) :
                 \E k \in 1..Len(synonyms_map[n].synonyms) :
                    synonyms_map[n].synonyms[k] = syn
    IN  synonyms_map[at].category

\* the scorer has returned
ScorerReturned == scorer_out.category # "unset"

\* the maximum of the provider's answers over the vocabulary
TopScore == MaxOf({scorer_sim[syn] : syn \in Synonyms})

\* C13 (scorer result): the returned score is the maximum similarity over all
\* (category, synonym) pairs; the returned category owns a synonym that
\* attains it when the maximum is at least 0.65, and is "other" below 0.65
\* with the score unchanged; all-zero answers give ("other", 0.0).
C13_ScorerResult ==
    ScorerReturned =>
        /\ scorer_out.score = TopScore
        /\ TopScore >= 65 =>
             \E syn \in Synonyms :
                /\ scorer_sim[syn] = TopScore
                /\ scorer_out.category = CategoryOf(syn)
        /\ TopScore < 65 => scorer_out.category = "other"
        /\ (\A syn \in Synonyms : scorer_sim[syn] = 0)
             => scorer_out = [category |-> "other", score |-> 0]

\* experience nominally scores highest, below the base threshold
C13_Witness ==
    /\ ScorerReturned
    /\ scorer_sim["work history"] = 64
    /\ scorer_sim["skills"] = 0
    /\ TopScore = 64
    /\ scorer_out = [category |-> "other", score |-> 64]

\* position of the first pair of the vocabulary whose score is the maximum
FirstTop ==
    LET pairs == vocabulary_pairs(synonyms_map)
    IN  CHOOSE n \in 1..Len(pairs) :
           /\ scorer_sim[pairs[n].syn] = TopScore
           /\ \A m \in 1..(n - 1) : scorer_sim[pairs[m].syn] # TopScore

\* C14 (tie-break): when several pairs attain the maximum, the category
\* returned (at 0.65 or more) is that of the first of them in the order
\* education, experience, skills, synonyms in list order.
C14_FirstSeenWins ==
    (ScorerReturned /\ TopScore >= 65)
    => scorer_out.category = vocabulary_pairs(synonyms_map)[FirstTop].category

\* the last synonym of education ties with the first ones of the two others
C14_Witness ==
    /\ ScorerReturned
    /\ scorer_sim["graduate studies"] = 90
    /\ scorer_sim["experience"] = 90
    /\ scorer_sim["education"] = 0
    /\ scorer_out = [category |-> "education", score |-> 90]

\* number of whitespace-delimited words of s
WordCount(s) ==
    Cardinality({k \in 1..Len(s) :
                    /\ s[k] \notin Whitespace
                    /\ (k = 1 \/ s[k - 1] \in Whitespace)})

\* number of characters of s in the set S
CountIn(s, S) == Cardinality({k \in 1..Len(s) : s[k] \in S})

\* C15 (heading heuristic): false for a blank line; true for a non-blank line
\* of at most max_words words; for a longer line true exactly when it has an
\* alphabetic character and uppercase / alphabetic >= uppercase_ratio.
C15_HeadingHeuristic ==
    heading_out.returned =>
        LET line == heading_in.line
            alpha == CountIn(line, UpperChars \cup LowerChars)
            upper == CountIn(line, UpperChars)
        IN  heading_out.value =
              (IF IsBlank(line) THEN FALSE
               ELSE IF WordCount(line) <= heading_in.max_words THEN TRUE
               ELSE alpha > 0 /\ upper * 100 >= heading_in.uppercase_ratio * alpha)

\* six words without a letter, at the defaults
C15_Witness ==
    /\ heading_out = [returned |-> TRUE, value |-> FALSE]
    /\ heading_in = [line |-> DigitsLine, max_words |-> 5, uppercase_ratio |-> 70]

C17_OutOfRangeRejected ==
    /\ provider_fault = "out_of_range" => (pc = "raised" /\ raised = "ProviderError")
    /\ best_score <= 100

\* C18 (as stated): a file of an unsupported extension, or whose read raised
\* before giving any text, never comes back from parse_resume as a result
\* with a section map.
C18_NoMapOnFailedExtraction ==
    \A k \in 1..Len(reports) :
        (~ supported(files[k]) \/ extraction_failed(files[k]))
        => reports[k].value # "dict"

\* the run has ended: by an exception, or after the last call
RunEnded == pc = "raised" \/ (pc = "idle" /\ file_pos > Len(files))

\* C19 (as stated): a failure while one document is segmented never aborts
\* the run: when the run has ended, every file has had its parse_resume call
\* and its outcome reported.
C19_BatchIsolation ==
    RunEnded => (file_pos > Len(files) /\ Len(reports) = Len(files))

\* C20 (document independence): whatever the interleaving of the loop
\* iterations of two concurrent calls, the section map a call returns is the
\* one the same text gives when segmented alone.
C20_Independence ==
    \A w \in Workers :
        workers[w].pc = "done" => workers[w].result = segment_alone(workers[w].text)

\* the second call has returned while the first is inside another section
C20_Witness ==
    /\ workers[1].pc = "loop"
    /\ workers[1].lines = <<EducationHeading, ContentLine>>
    /\ workers[1].idx = 2
    /\ workers[1].current_section = "education"
    /\ workers[2].pc = "done"
    /\ workers[2].lines = <<ContentLine, ExperienceHeading>>
    /\ workers[2].current_section = "experience"
    /\ workers[2].result["other"] = strip(ContentLine)
    /\ workers[2].result["education"] = <<>>

\* x >= y on scores
AtLeast(x, y) == x.num * y.den >= y.num * x.den

Entries(list) == {list[i] : i \in 1..Len(list)}

\* ret holds the n highest entries of full, highest first
TopOf(ret, full, n) ==
    /\ Len(ret) = (IF n < Len(full) THEN n ELSE Len(full))
    /\ Entries(ret) \subseteq Entries(full)
    /\ Cardinality(Entries(ret)) = Len(ret)
    /\ \A x \in Entries(full) \ Entries(ret) : \A y \in Entries(ret) :
           AtLeast(y.score, x.score)
    /\ \A i, j \in 1..Len(ret) : i < j => AtLeast(ret[i].score, ret[j].score)

\* the call being made finds stored scores for its resume_id
HitsStored ==
    /\ match_call'.with_storage
    /\ match_call'.resume_id # NoId
    /\ match_call'.resume_id \in DOMAIN storage_dict

\* C21 (stored scores win): once scores are stored for a resume_id, a later
\* call with the same dict and resume_id returns the top_n highest entries of
\* the stored list whatever vectors it is given, and leaves the dict as it is;
\* a call with store_results=False leaves the dict as it is too.
C21_StoredScoresWin ==
    [][/\ HitsStored
          => /\ TopOf(match_call'.returned, storage_dict[match_call'.resume_id],
                      match_call'.top_n)
             /\ storage_dict' = storage_dict
       /\ ~ match_call'.store_results => storage_dict' = storage_dict]_vars

\* scores of <<1,2,3>> are stored; a later call with the opposite resume vector
\* and another job list got the stored top entry
C21_Witness ==
    /\ match_call.made
    /\ match_call.resume_id = "resume123"
    /\ match_call.with_storage
    /\ match_call.resume_vector = <<-3, -2, -1>>
    /\ match_call.job_vectors = <<[job_id |-> "job3", job_vec |-> <<0, 0, 0>>]>>
    /\ match_call.top_n = 1
    /\ "resume123" \in DOMAIN storage_dict
    /\ Len(storage_dict["resume123"]) = 2
    /\ storage_dict["resume123"][1].job_id = "job1"
    /\ storage_dict["resume123"][2].job_id = "job2"
    /\ Len(match_call.returned) = 1
    /\ match_call.returned[1].job_id = "job1"

\* the (job_id, score) pairs of the jobs passed to a call
ScoredJobs(call) ==
    [i \in 1..Len(call.job_vectors) |->
        [job_id |-> call.job_vectors[i].job_id,
         score |-> compute_cosine_similarity(call.resume_vector,
                                             call.job_vectors[i].job_vec)]]

\* C22 as stated: on a miss and on a hit alike the returned list is the top_n
\* highest-scoring of the jobs passed, highest first, min(top_n, number of
\* jobs) long.
C22_TopOfJobsPassed ==
    match_call.made
    => TopOf(match_call.returned, ScoredJobs(match_call), match_call.top_n)

\* C22 (amended): the returned list is sorted by descending score; on a miss
\* it is the top_n highest-scoring of the jobs passed, min(top_n, number of
\* jobs) long; on a hit it is the top_n highest of the stored list,
\* min(top_n, number of stored entries) long, whatever jobs are passed.
C22_TopOfListUsed ==
    [][IF HitsStored
       THEN /\ Len(match_call'.returned)
                 = (IF match_call'.top_n < Len(storage_dict[match_call'.resume_id])
                    THEN match_call'.top_n
                    ELSE Len(storage_dict[match_call'.resume_id]))
            /\ TopOf(match_call'.returned, storage_dict[match_call'.resume_id],
                     Len(match_call'.returned))
       ELSE TopOf(match_call'.returned, ScoredJobs(match_call'),
                  match_call'.top_n)]_vars

\* one score is stored; a later call passing two jobs and top_n = 2 got the one
\* stored entry
C22_Witness ==
    /\ match_call.made
    /\ match_call.with_storage
    /\ match_call.resume_id = "resume123"
    /\ match_call.job_vectors = <<[job_id |-> "job1", job_vec |-> <<1, 1, 1>>],
                                  [job_id |-> "job2", job_vec |-> <<2, 2, 1>>]>>
    /\ match_call.top_n = 2
    /\ "resume123" \in DOMAIN storage_dict
    /\ storage_dict["resume123"]
         = <<[job_id |-> "job3", score |-> [num |-> 0, den |-> 1]]>>
    /\ match_call.returned = storage_dict["resume123"]

\* the job lies within the requested range
WithinRange(job, min_salary, max_salary) ==
    /\ job.min_salary # NoSalary
    /\ job.max_salary # NoSalary
    /\ min_salary # NoSalary => job.min_salary >= min_salary
    /\ max_salary # NoSalary => job.max_salary <= max_salary

RECURSIVE JobsWithin(_, _, _)
JobsWithin(jobs, min_salary, max_salary) ==
    IF jobs = <<>> THEN <<>>
    ELSE (IF WithinRange(Head(jobs), min_salary, max_salary)
          THEN <<Head(jobs)>> ELSE <<>>)
         \o JobsWithin(Tail(jobs), min_salary, max_salary)

\* C23 (salary range): filter_by_salary_range returns, in input order, exactly
\* the jobs with both salary fields whose min_salary is at least the requested
\* minimum and whose max_salary is at most the requested maximum, a bound of
\* None being no bound.
C23_WithinRange ==
    filter_call.made
    => filter_call.returned = JobsWithin(filter_call.jobs, filter_call.min_salary,
                                         filter_call.max_salary)

\* the requests issued for the finished pages
RECURSIVE RequestsOf(_)
RequestsOf(log) ==
    IF log = <<>> THEN 0 ELSE Head(log).attempts + RequestsOf(Tail(log))

RequestsIssued ==
    RequestsOf(page_log) + (IF fetch_pc = "while" THEN attempts ELSE 0)

\* C24 (bounded retries): a page gets at most 4 HTTP requests whatever the mix
\* of 429 responses and request exceptions, the call issues at most 4 * pages
\* requests, and it ends.
C24_BoundedRetries ==
    /\ [](/\ attempts <= 4
          /\ \A k \in 1..Len(page_log) : page_log[k].attempts <= 4
          /\ RequestsIssued <= 4 * pages)
    /\ <>(fetch_pc = "done")

\* the first page took four requests, 429 and exceptions mixed, the second one
C24_Witness ==
    /\ fetch_pc = "done"
    /\ pages = 2
    /\ page_log[1].attempts = 4
    /\ ~ page_log[1].ok
    /\ page_log[1].sleeps[1].after = "429"
    /\ page_log[1].sleeps[2].after = "exception"
    /\ page_log[2].attempts = 1
    /\ RequestsIssued = 5

\* C25 (page isolation): every page of the call is attempted; a page is
\* skipped only when its retries are exhausted and then adds no job; a page
\* that succeeds adds its jobs once, after the jobs of the pages before it; for
\* Jooble the offset grows by results_per_page with every page, skipped or not.
C25_PageIsolation ==
    /\ Len(page_log) = page_num - 1
    /\ fetch_pc = "done" => Len(page_log) = pages
    /\ \A k \in 1..Len(page_log) :
         LET rec == page_log[k]
         IN  /\ rec.page = k
             /\ rec.attempts >= 1
             /\ rec.before = (IF k = 1 THEN <<>> ELSE page_log[k - 1].after)
             /\ rec.ok => rec.after = rec.before \o rec.response
             /\ ~ rec.ok => (rec.after = rec.before /\ rec.attempts = 4)
             /\ fetcher = "jooble" => rec.offset = (k - 1) * results_per_page
    /\ all_jobs = (IF page_log = <<>> THEN <<>> ELSE page_log[Len(page_log)].after)
    /\ fetcher = "jooble" => offset = (page_num - 1) * results_per_page

\* Jooble: the first page is skipped after 429s and an exception, the second
\* page, asked for at offset 10, gives the two jobs returned
C25_Witness ==
    /\ fetch_pc = "done"
    /\ fetcher = "jooble"
    /\ pages = 2
    /\ ~ page_log[1].ok
    /\ Len(page_log[1].sleeps) = 3
    /\ page_log[1].sleeps[1].after = "429"
    /\ page_log[2].ok
    /\ page_log[2].offset = 10
    /\ all_jobs = <<<<10, 1>>, <<10, 2>>>>
    /\ offset = 20

RECURSIVE Pow2(_)
Pow2(k) == IF k = 0 THEN 1 ELSE 2 * Pow2(k - 1)

\* the k-th sleep of a page lasts 30 * 2^(k-1) seconds
Doubling(slept) ==
    /\ Len(slept) <= 4
    /\ \A k \in 1..Len(slept) : slept[k].seconds = 30 * Pow2(k - 1)

\* C26 (exponential backoff): within a page the k-th sleep lasts 30 * 2^(k-1)
\* seconds (30, 60, 120, 240) whether it follows a 429 response or a request
\* exception, and every page starts with a backoff of 30 seconds.
C26_ExponentialBackoff ==
    /\ Doubling(sleeps)
    /\ \A p \in 1..Len(page_log) : Doubling(page_log[p].sleeps)
    /\ fetch_pc = "while" => backoff = 30 * Pow2(Len(sleeps))
    /\ (fetch_pc = "while" /\ attempts = 0) => (backoff = 30 /\ sleeps = <<>>)

\* the first page slept four times after 429s; the second page is slept in anew
\* after exceptions
C26_Witness ==
    /\ fetch_pc = "while"
    /\ page_num = 2
    /\ Len(page_log) = 1
    /\ page_log[1].sleeps = <<[seconds |-> 30, after |-> "429"],
                              [seconds |-> 60, after |-> "429"],
                              [seconds |-> 120, after |-> "429"],
                              [seconds |-> 240, after |-> "429"]>>
    /\ sleeps = <<[seconds |-> 30, after |-> "exception"],
                  [seconds |-> 60, after |-> "429"],
                  [seconds |-> 120, after |-> "exception"]>>
    /\ backoff = 240

====
